---- MODULE Spec2Model ----
(***************************************************************************)
(* Tor Weather (weatherapp): a model of                                    *)
(*   - ctlutil.py   CtlUil, the wrapper around a Stem control connection   *)
(*   - views.py     the home and subscribe views                           *)
(*   - models.py    insert_fingerprint_spaces, get_rand_string and the     *)
(*                  Router / Subscriber / Subscription tables              *)
(*   - emails.py    _get_router_name                                       *)
(* Strings are sequences of one-character strings.  A call's outcome is a  *)
(* record [kind, value, exc]: kind = "return" with its value, or           *)
(* kind = "raise" with the exception's class name.                         *)
(***************************************************************************)
EXTENDS Integers, Sequences, FiniteSets, TLC

VARIABLES
    obj,        \* CtlUil objects: lifecycle, attributes, calls issued on the control port
    log,        \* messages recorded by logging.error, oldest first
    last,       \* the most recent boolean check: its call and its outcome
    errFalse,   \* per check: calls that caught a ControllerError and returned False
    nChecks,    \* boolean checks issued so far
    http,       \* the views' calls: view, request and response, oldest first
    rnd,        \* the bytes os.urandom hands to get_rand_string
    randRet,    \* the outcome of get_rand_string
    fpIn,       \* a Router's fingerprint field
    fpRet,      \* the outcome of the last fingerprint formatting call
    routers,    \* table Router: id -> row
    subscribers,    \* table Subscriber: id -> row
    subscriptions,  \* table Subscription: id -> row
    nextId,     \* the next primary key of each table
    dbRet       \* the outcome of the last table operation

ctlVars == <<obj, log, last, errFalse, nChecks>>

viewVars == <<http>>

randVars == <<rnd, randRet>>

fpVars == <<fpIn, fpRet>>

dbVars == <<routers, subscribers, subscriptions, nextId, dbRet>>

ctlOthers == <<viewVars, randVars, fpVars, dbVars>>

viewOthers == <<ctlVars, randVars, fpVars, dbVars>>

randOthers == <<ctlVars, viewVars, fpVars, dbVars>>

fpOthers == <<ctlVars, viewVars, randVars, dbVars>>

dbOthers == <<ctlVars, viewVars, randVars, fpVars>>

vars == <<obj, log, last, errFalse, nChecks, http, rnd, randRet, fpIn, fpRet,
          routers, subscribers, subscriptions, nextId, dbRet>>

----------------------------------------------------------------------------
(* Outcomes of a call *)

Return(v) == [kind |-> "return", value |-> v, exc |-> "none"]

Raise(e) == [kind |-> "raise", value |-> "none", exc |-> e]

----------------------------------------------------------------------------
(* Bounds *)

MaxObjects == 2

MaxChecks == 2

Objects == 1 .. MaxObjects

----------------------------------------------------------------------------
(* The Tor network as the control port reports it *)

Fingerprints == {"fpExit", "fpHib", "fpNone"}

\* Router status entries of the consensus: fingerprint -> flags.
Consensus == [f \in {"fpExit", "fpHib"} |->
                IF f = "fpExit" THEN {"Running", "Stable", "Exit"} ELSE {"Running"}]

\* Server descriptors: fingerprint -> what the checks read of them.
Descriptors == [f \in {"fpExit", "fpHib"} |->
                  IF f = "fpExit" THEN [exit80 |-> TRUE, hibernating |-> FALSE]
                                  ELSE [exit80 |-> FALSE, hibernating |-> TRUE]]

\* control.get_server_descriptor(fingerprint): the descriptor, or a
\* stem.ControllerError when the relay is unknown or the connection fails.
get_server_descriptor(fp, connFails) ==
    IF connFails \/ fp \notin DOMAIN Descriptors
    THEN Raise("ControllerError")
    ELSE Return(Descriptors[fp])

\* control.get_network_status(fingerprint): the router status entry, or a
\* stem.ControllerError when the relay is unknown or the connection fails.
get_network_status(fp, connFails) ==
    IF connFails \/ fp \notin DOMAIN Consensus
    THEN Raise("ControllerError")
    ELSE Return([flags |-> Consensus[fp]])

----------------------------------------------------------------------------
(* class CtlUil *)

\* The attributes class CtlUil defines; instances add control_host,
\* control_port, authenticator and (after a successful connect) control.
CtlUil_attrs == {"_CONTROL_HOST", "_CONTROL_PORT", "_AUTHENTICATOR",
                 "__init__", "__del__", "is_up", "is_exit", "is_stable",
                 "is_hibernating"}

\* self.<name> on an instance
GetAttr(o, name) ==
    IF \/ name \in CtlUil_attrs
       \/ name \in {"control_host", "control_port", "authenticator"}
       \/ (name = "control" /\ obj[o].hasControl)
    THEN Return(name)
    ELSE Raise("AttributeError")

MsgConnect == "Could not connect to Tor control port."

MsgDescriptor == "Unable to get server descriptor"

MsgStatus == "Unable to get router status entry"

NoCall == [op |-> "none", fp |-> "none", lookup |-> "none",
           kind |-> "none", value |-> "none", exc |-> "none"]

Checked(op, fp, lookup, r) ==
    [op |-> op, fp |-> fp, lookup |-> lookup,
     kind |-> r.kind, value |-> r.value, exc |-> r.exc]

CtlInit ==
    /\ obj = [o \in Objects |->
                [phase |-> "unborn", hasControl |-> FALSE, conn |-> "none",
                 initExc |-> "none", delExc |-> "none", calls |-> <<>>]]
    /\ log = <<>>
    /\ last = NoCall
    /\ errFalse = [op \in {"is_up", "is_exit", "is_stable", "is_hibernating"} |-> 0]
    /\ nChecks = 0

\* CtlUil(): __init__ connects, then authenticates.  An exception leaves the
\* caller without the object, which is then garbage.
CtlUil_init_swallow(o, connectOk, authOk) ==
    /\ obj[o].phase = "unborn"
    /\ IF ~connectOk
       THEN /\ log' = Append(log, MsgConnect)
            /\ obj' = [obj EXCEPT ![o].phase = "ready",
                                  ![o].calls = <<"from_port">>]
       ELSE /\ log' = log
            /\ obj' = [obj EXCEPT
                         ![o].hasControl = TRUE,
                         ![o].phase = IF authOk THEN "ready" ELSE "garbage",
                         ![o].conn = IF authOk THEN "authenticated" ELSE "open",
                         ![o].initExc = IF authOk THEN "none" ELSE "AuthenticationFailure",
                         ![o].calls = <<"from_port", "authenticate">>]
    /\ UNCHANGED <<last, errFalse, nChecks>>
    /\ UNCHANGED ctlOthers

CtlUil_init(o, connectOk, authOk) ==
    /\ obj[o].phase = "unborn"
    /\ IF ~connectOk
       THEN \* except stem.SocketError: logging.error(errormsg); raise
            /\ log' = Append(log, MsgConnect)
            /\ obj' = [obj EXCEPT ![o].phase = "garbage",
                                  ![o].initExc = "SocketError",
                                  ![o].calls = <<"from_port">>]
       ELSE \* self.control = ...; self.control.authenticate(...)
            /\ log' = log
            /\ obj' = [obj EXCEPT
                         ![o].hasControl = TRUE,
                         ![o].phase = IF authOk THEN "ready" ELSE "garbage",
                         ![o].conn = IF authOk THEN "authenticated" ELSE "open",
                         ![o].initExc = IF authOk THEN "none" ELSE "AuthenticationFailure",
                         ![o].calls = <<"from_port", "authenticate">>]
    /\ UNCHANGED <<last, errFalse, nChecks>>
    /\ UNCHANGED ctlOthers

\* The caller lets go of its CtlUil object.
Release(o) ==
    /\ obj[o].phase = "ready"
    /\ obj' = [obj EXCEPT ![o].phase = "garbage"]
    /\ UNCHANGED <<log, last, errFalse, nChecks>>
    /\ UNCHANGED ctlOthers

\* __del__, run by the garbage collector: self.control.close()
CtlUil_del(o) ==
    /\ obj[o].phase = "garbage"
    /\ LET c == GetAttr(o, "control") IN
         IF c.kind = "raise"
         THEN obj' = [obj EXCEPT ![o].phase = "finalized", ![o].delExc = c.exc]
         ELSE obj' = [obj EXCEPT ![o].phase = "finalized",
                                 ![o].conn = "closed",
                                 ![o].calls = Append(@, "close")]
    /\ UNCHANGED <<log, last, errFalse, nChecks>>
    /\ UNCHANGED ctlOthers

CanCheck(o) == obj[o].phase = "ready" /\ nChecks < MaxChecks

\* is_up: cons = self.get_single_consensus(fingerprint); return cons != ''.
\* Neither the class nor its instances define get_single_consensus: the
\* attribute lookup raises before anything is asked of the control port.
is_up(o, fp) ==
    /\ CanCheck(o)
    /\ LET m == GetAttr(o, "get_single_consensus") IN
         /\ m.kind = "raise"
         /\ last' = Checked("is_up", fp, "none", m)
    /\ nChecks' = nChecks + 1
    /\ UNCHANGED <<obj, log, errFalse>>
    /\ UNCHANGED ctlOthers

is_exit(o, fp, connFails) ==
    /\ CanCheck(o)
    /\ LET desc == get_server_descriptor(fp, connFails) IN
         IF desc.kind = "raise"
         THEN /\ log' = Append(log, MsgDescriptor)
              /\ last' = Checked("is_exit", fp, desc.exc, Return(FALSE))
              /\ errFalse' = [errFalse EXCEPT !["is_exit"] = @ + 1]
         ELSE /\ last' = Checked("is_exit", fp, "ok", Return(desc.value.exit80))
              /\ UNCHANGED <<log, errFalse>>
    /\ obj' = [obj EXCEPT ![o].calls = Append(@, "get_server_descriptor")]
    /\ nChecks' = nChecks + 1
    /\ UNCHANGED ctlOthers

is_stable_nolog(o, fp, connFails) ==
    /\ CanCheck(o)
    /\ LET desc == get_network_status(fp, connFails) IN
         IF desc.kind = "raise"
         THEN /\ log' = log
              /\ last' = Checked("is_stable", fp, desc.exc, Return(FALSE))
              /\ errFalse' = [errFalse EXCEPT !["is_stable"] = @ + 1]
         ELSE /\ last' = Checked("is_stable", fp, "ok",
                                 Return("Stable" \in desc.value.flags))
              /\ UNCHANGED <<log, errFalse>>
    /\ obj' = [obj EXCEPT ![o].calls = Append(@, "get_network_status")]
    /\ nChecks' = nChecks + 1
    /\ UNCHANGED ctlOthers

is_stable(o, fp, connFails) ==
    /\ CanCheck(o)
    /\ LET desc == get_network_status(fp, connFails) IN
         IF desc.kind = "raise"
         THEN /\ log' = Append(log, MsgStatus)
              /\ last' = Checked("is_stable", fp, desc.exc, Return(FALSE))
              /\ errFalse' = [errFalse EXCEPT !["is_stable"] = @ + 1]
         ELSE /\ last' = Checked("is_stable", fp, "ok",
                                 Return("Stable" \in desc.value.flags))
              /\ UNCHANGED <<log, errFalse>>
    /\ obj' = [obj EXCEPT ![o].calls = Append(@, "get_network_status")]
    /\ nChecks' = nChecks + 1
    /\ UNCHANGED ctlOthers

is_hibernating(o, fp, connFails) ==
    /\ CanCheck(o)
    /\ LET desc == get_server_descriptor(fp, connFails) IN
         IF desc.kind = "raise"
         THEN /\ last' = Checked("is_hibernating", fp, desc.exc, Return(FALSE))
              /\ errFalse' = [errFalse EXCEPT !["is_hibernating"] = @ + 1]
         ELSE /\ last' = Checked("is_hibernating", fp, "ok",
                                 Return(desc.value.hibernating))
              /\ UNCHANGED errFalse
    /\ obj' = [obj EXCEPT ![o].calls = Append(@, "get_server_descriptor")]
    /\ nChecks' = nChecks + 1
    /\ UNCHANGED log
    /\ UNCHANGED ctlOthers

CtlNext ==
    \/ \E o \in Objects, connectOk \in BOOLEAN, authOk \in BOOLEAN :
          CtlUil_init(o, connectOk, authOk)
    \/ \E o \in Objects : Release(o)
    \/ \E o \in Objects : CtlUil_del(o)
    \/ \E o \in Objects, fp \in Fingerprints : is_up(o, fp)
    \/ \E o \in Objects, fp \in Fingerprints, connFails \in BOOLEAN :
          is_exit(o, fp, connFails)
    \/ \E o \in Objects, fp \in Fingerprints, connFails \in BOOLEAN :
          is_stable(o, fp, connFails)
    \/ \E o \in Objects, fp \in Fingerprints, connFails \in BOOLEAN :
          is_hibernating(o, fp, connFails)

----------------------------------------------------------------------------
(* views.py *)

MaxRequests == 3

Requests == [method : {"GET", "POST"},
             fieldsOk : BOOLEAN,        \* every submitted field is acceptable
             subscribed : BOOLEAN]      \* the user is already subscribed to the node

\* django.shortcuts.render(request, template)
render(request, template) ==
    [kind |-> "render", template |-> template, to |-> "none"]

\* home(request): return render(request, 'home.html')
home(request) ==
    /\ Len(http) < MaxRequests
    /\ http' = Append(http, [view |-> "home", request |-> request,
                             response |-> render(request, "home.html")])
    /\ UNCHANGED viewOthers

\* subscribe(request): return render(request, 'subscribe.html')
subscribe(request) ==
    /\ Len(http) < MaxRequests
    /\ http' = Append(http, [view |-> "subscribe", request |-> request,
                             response |-> render(request, "subscribe.html")])
    /\ UNCHANGED viewOthers

ViewInit == http = <<>>

ViewNext ==
    \/ \E request \in Requests : home(request)
    \/ \E request \in Requests : subscribe(request)

----------------------------------------------------------------------------
(* models.py: helper functions *)

\* Python values that carry their type: bytes and str do not mix.
Bytes(cs) == [type |-> "bytes", chars |-> cs]

Str(cs) == [type |-> "str", chars |-> cs]

B64Std ==
    <<"A","B","C","D","E","F","G","H","I","J","K","L","M","N","O","P",
      "Q","R","S","T","U","V","W","X","Y","Z","a","b","c","d","e","f",
      "g","h","i","j","k","l","m","n","o","p","q","r","s","t","u","v",
      "w","x","y","z","0","1","2","3","4","5","6","7","8","9","+","/">>

\* the four 6-bit groups of three bytes
Sextets(a, b, c) ==
    << a \div 4, (a % 4) * 16 + (b \div 16), (b % 16) * 4 + (c \div 64), c % 64 >>

RECURSIVE b64encode(_)
b64encode(bs) ==
    IF Len(bs) = 0 THEN <<>>
    ELSE IF Len(bs) = 1 THEN
        LET s == Sextets(bs[1], 0, 0) IN
          <<B64Std[s[1] + 1], B64Std[s[2] + 1], "=", "=">>
    ELSE IF Len(bs) = 2 THEN
        LET s == Sextets(bs[1], bs[2], 0) IN
          <<B64Std[s[1] + 1], B64Std[s[2] + 1], B64Std[s[3] + 1], "=">>
    ELSE
        LET s == Sextets(bs[1], bs[2], bs[3]) IN
          <<B64Std[s[1] + 1], B64Std[s[2] + 1], B64Std[s[3] + 1], B64Std[s[4] + 1]>>
            \o b64encode(SubSeq(bs, 4, Len(bs)))

\* base64.urlsafe_b64encode: the standard encoding with '+' -> '-', '/' -> '_';
\* its result is a bytes object.
urlsafe_b64encode(bs) ==
    LET e == b64encode(bs) IN
      Bytes([i \in 1 .. Len(e) |->
               IF e[i] = "+" THEN "-" ELSE IF e[i] = "/" THEN "_" ELSE e[i]])

\* r.endswith(suffix): bytes.endswith takes bytes, str.endswith takes str
endswith(r, suffix) ==
    IF r.type # suffix.type
    THEN Raise("TypeError")
    ELSE Return(/\ Len(suffix.chars) <= Len(r.chars)
                /\ SubSeq(r.chars, Len(r.chars) - Len(suffix.chars) + 1, Len(r.chars))
                     = suffix.chars)

\* r.replace(old, new) for one-character old and new: every occurrence
replace(r, old, new) ==
    IF r.type # old.type \/ r.type # new.type
    THEN Raise("TypeError")
    ELSE Return([type |-> r.type,
                 chars |-> [i \in 1 .. Len(r.chars) |->
                              IF r.chars[i] = old.chars[1] THEN new.chars[1]
                                                           ELSE r.chars[i]]])

RandLen == 18

\* get_rand_string(), on the bytes os.urandom(18) returned
get_rand_string(urandom) ==
    LET r == urlsafe_b64encode(urandom)
        e == endswith(r, Str(<<"-">>))
    IN  IF e.kind = "raise" THEN e
        ELSE IF e.value THEN replace(r, Str(<<"-">>), Str(<<"x">>))
        ELSE Return(r)

ByteSamples == {0, 62, 190, 255}

\* os.urandom(n), sampled: one byte value repeated, then two free bytes
UrandomSamples(n) ==
    { [i \in 1 .. n |-> IF i <= n - 2 THEN head ELSE tail[i - (n - 2)]] :
        head \in ByteSamples, tail \in [1 .. 2 -> ByteSamples] }

NotCalled == [kind |-> "none", value |-> "none", exc |-> "none"]

RandInit ==
    /\ rnd \in UrandomSamples(RandLen)
    /\ randRet = NotCalled

call_get_rand_string ==
    /\ randRet = NotCalled
    /\ randRet' = get_rand_string(rnd)
    /\ UNCHANGED rnd
    /\ UNCHANGED randOthers

RandNext == call_get_rand_string

----------------------------------------------------------------------------
(* models.py, emails.py: fingerprint formatting *)

MaxFpLen == 9

MaxOddLen == 5

HexChars == {"A", "9"}

OddChars == {"A", " ", "\n"}

StringsOver(alphabet, n) == UNION { [1 .. k -> alphabet] : k \in 0 .. n }

\* re.findall('.{n}', s) from position pos on: non-overlapping matches, left
\* to right; '.' matches any character but a newline.
RECURSIVE findall_dot(_, _, _)
findall_dot(n, s, pos) ==
    IF pos + n - 1 > Len(s) THEN <<>>
    ELSE IF \A i \in pos .. pos + n - 1 : s[i] # "\n"
         THEN <<SubSeq(s, pos, pos + n - 1)>> \o findall_dot(n, s, pos + n)
         ELSE findall_dot(n, s, pos + 1)

\* sep.join(parts)
RECURSIVE join(_, _)
join(sep, parts) ==
    IF Len(parts) = 0 THEN <<>>
    ELSE IF Len(parts) = 1 THEN parts[1]
    ELSE parts[1] \o sep \o join(sep, Tail(parts))

insert_fingerprint_spaces_3(fingerprint) ==
    join(<<" ">>, findall_dot(3, fingerprint, 1))

\* ' '.join(re.findall('.{4}', str(fingerprint)))
insert_fingerprint_spaces(fingerprint) ==
    join(<<" ">>, findall_dot(4, fingerprint, 1))

RouterNames == { <<"U","n","n","a","m","e","d">>, <<"T","o","r","1">> }

\* _get_router_name(fingerprint, name)
get_router_name(fingerprint, name) ==
    LET spaced_fingerprint == insert_fingerprint_spaces(fingerprint) IN
      IF name = <<"U","n","n","a","m","e","d">>
      THEN <<"(","i","d",":"," ">> \o spaced_fingerprint \o <<")">>
      ELSE name \o <<" ","(","i","d",":"," ">> \o spaced_fingerprint \o <<")">>

FpInit ==
    /\ fpIn \in StringsOver(HexChars, MaxFpLen) \cup StringsOver(OddChars, MaxOddLen)
    /\ fpRet = [op |-> "none", name |-> <<>>, value |-> <<>>]

\* Router.spaced_fingerprint()
spaced_fingerprint ==
    /\ fpRet.op = "none"
    /\ fpRet' = [op |-> "spaced_fingerprint", name |-> <<>>,
                 value |-> insert_fingerprint_spaces(fpIn)]
    /\ UNCHANGED fpIn
    /\ UNCHANGED fpOthers

\* emails._get_router_name(router.fingerprint, router.name)
call_get_router_name(name) ==
    /\ fpRet.op = "none"
    /\ fpRet' = [op |-> "_get_router_name", name |-> name,
                 value |-> get_router_name(fpIn, name)]
    /\ UNCHANGED fpIn
    /\ UNCHANGED fpOthers

FpNext ==
    \/ spaced_fingerprint
    \/ \E name \in RouterNames : call_get_router_name(name)

----------------------------------------------------------------------------
(* models.py: the tables.  The datetime fields (last_seen, sub_date) take *)
(* the clock's value and are left out.                                    *)

\* rows ever created, over the three tables
MaxRows == 5

Router_DEFAULTS == [name |-> "Unnamed", welcomed |-> FALSE, up |-> TRUE, exit |-> FALSE]

Subscriber_DEFAULTS == [confirmed |-> FALSE]

Subscription_DEFAULTS == [emailed |-> FALSE]

Subscriber_router_on_delete == "CASCADE"

Subscription_subscriber_on_delete_nothing == "DO_NOTHING"

Subscription_subscriber_on_delete == "CASCADE"

DbDone(op, id, given, exc, removed) ==
    [op |-> op, id |-> id, given |-> given, exc |-> exc, removed |-> removed]

DbInit ==
    /\ routers = <<>>
    /\ subscribers = <<>>
    /\ subscriptions = <<>>
    /\ nextId = [Router |-> 1, Subscriber |-> 1, Subscription |-> 1]
    /\ dbRet = DbDone("none", 0, {}, "none", <<0, 0>>)

Created == (nextId.Router - 1) + (nextId.Subscriber - 1) + (nextId.Subscription - 1)

\* table with row id added
Insert(table, id, row) == [i \in DOMAIN table \cup {id} |-> IF i = id THEN row ELSE table[i]]

\* table without the rows ids
Remove(table, ids) == [i \in DOMAIN table \ ids |-> table[i]]

\* Router.objects.create(fingerprint=...)
create_router(fingerprint) ==
    /\ Created < MaxRows
    /\ routers' = Insert(routers, nextId.Router,
                         [fingerprint |-> fingerprint,
                          name |-> Router_DEFAULTS.name,
                          welcomed |-> Router_DEFAULTS.welcomed,
                          up |-> Router_DEFAULTS.up,
                          exit |-> Router_DEFAULTS.exit])
    /\ nextId' = [nextId EXCEPT !.Router = @ + 1]
    /\ dbRet' = DbDone("create_router", nextId.Router, {}, "none", <<0, 0>>)
    /\ UNCHANGED <<subscribers, subscriptions>>
    /\ UNCHANGED dbOthers

\* Subscriber.objects.create(email=..., router=..., **given): a field that is
\* not given takes its default; the auth fields' default is get_rand_string.
\* router is a Router id, or 0 for None.
create_subscriber(router, given, confirmed, urandom) ==
    /\ Created < MaxRows
    /\ LET auth == IF "auth" \in given THEN Return(Str(<<"k">>))
                                       ELSE get_rand_string(urandom)
       IN  IF auth.kind = "raise"
           THEN /\ dbRet' = DbDone("create_subscriber", 0, given, auth.exc, <<0, 0>>)
                /\ UNCHANGED <<subscribers, nextId>>
           ELSE IF router \notin DOMAIN routers
           THEN \* NOT NULL / FOREIGN KEY constraint failed
                /\ dbRet' = DbDone("create_subscriber", 0, given, "IntegrityError", <<0, 0>>)
                /\ UNCHANGED <<subscribers, nextId>>
           ELSE /\ subscribers' = Insert(subscribers, nextId.Subscriber,
                       [router |-> router,
                        confirmed |-> IF "confirmed" \in given
                                      THEN confirmed
                                      ELSE Subscriber_DEFAULTS.confirmed])
                /\ nextId' = [nextId EXCEPT !.Subscriber = @ + 1]
                /\ dbRet' = DbDone("create_subscriber", nextId.Subscriber, given,
                                   "none", <<0, 0>>)
    /\ UNCHANGED <<routers, subscriptions>>
    /\ UNCHANGED dbOthers

\* Subscription.objects.create(subscriber=..., **given)
create_subscription(subscriber, given, emailed) ==
    /\ Created < MaxRows
    /\ IF subscriber \notin DOMAIN subscribers
       THEN /\ dbRet' = DbDone("create_subscription", 0, given, "IntegrityError", <<0, 0>>)
            /\ UNCHANGED <<subscriptions, nextId>>
       ELSE /\ subscriptions' = Insert(subscriptions, nextId.Subscription,
                   [subscriber |-> subscriber,
                    emailed |-> IF "emailed" \in given
                                THEN emailed
                                ELSE Subscription_DEFAULTS.emailed])
            /\ nextId' = [nextId EXCEPT !.Subscription = @ + 1]
            /\ dbRet' = DbDone("create_subscription", nextId.Subscription, given,
                               "none", <<0, 0>>)
    /\ UNCHANGED <<routers, subscribers>>
    /\ UNCHANGED dbOthers

\* the Subscribers a delete of Routers rs collects
CollectSubscribers(rs) ==
    IF Subscriber_router_on_delete = "CASCADE"
    THEN {s \in DOMAIN subscribers : subscribers[s].router \in rs}
    ELSE {}

\* the Subscriptions a delete of Subscribers ss collects
CollectSubscriptions(ss) ==
    IF Subscription_subscriber_on_delete = "CASCADE"
    THEN {x \in DOMAIN subscriptions : subscriptions[x].subscriber \in ss}
    ELSE {}

\* router.delete()
delete_router(r) ==
    /\ r \in DOMAIN routers
    /\ LET ss == CollectSubscribers({r})
           xs == CollectSubscriptions(ss)
       IN  /\ routers' = Remove(routers, {r})
           /\ subscribers' = Remove(subscribers, ss)
           /\ subscriptions' = Remove(subscriptions, xs)
           /\ dbRet' = DbDone("delete_router", r, {}, "none",
                              <<Cardinality(ss), Cardinality(xs)>>)
    /\ UNCHANGED nextId
    /\ UNCHANGED dbOthers

\* subscriber.delete()
delete_subscriber(s) ==
    /\ s \in DOMAIN subscribers
    /\ LET xs == CollectSubscriptions({s})
       IN  /\ subscribers' = Remove(subscribers, {s})
           /\ subscriptions' = Remove(subscriptions, xs)
           /\ dbRet' = DbDone("delete_subscriber", s, {}, "none",
                              <<0, Cardinality(xs)>>)
    /\ UNCHANGED <<routers, nextId>>
    /\ UNCHANGED dbOthers

\* subscription.delete()
delete_subscription(x) ==
    /\ x \in DOMAIN subscriptions
    /\ subscriptions' = Remove(subscriptions, {x})
    /\ dbRet' = DbDone("delete_subscription", x, {}, "none", <<0, 0>>)
    /\ UNCHANGED <<routers, subscribers, nextId>>
    /\ UNCHANGED dbOthers

DbNext ==
    \/ \E f \in {"F1"} : create_router(f)
    \/ \E r \in 0 .. MaxRows, given \in SUBSET {"auth", "confirmed"} :
         \E confirmed \in IF "confirmed" \in given THEN BOOLEAN ELSE {FALSE},
            head \in IF "auth" \in given THEN {0} ELSE {0, 62} :
            create_subscriber(r, given, confirmed, [i \in 1 .. RandLen |-> head])
    \/ \E s \in 0 .. MaxRows, given \in SUBSET {"emailed"} :
         \E emailed \in IF "emailed" \in given THEN BOOLEAN ELSE {FALSE} :
            create_subscription(s, given, emailed)
    \/ \E r \in 1 .. MaxRows : delete_router(r)
    \/ \E s \in 1 .. MaxRows : delete_subscriber(s)
    \/ \E x \in 1 .. MaxRows : delete_subscription(x)

----------------------------------------------------------------------------
(* Specifications: one per component; the other components stay idle. *)

CtlIdle ==
    /\ obj = <<>>
    /\ log = <<>>
    /\ last = NoCall
    /\ errFalse = <<>>
    /\ nChecks = 0

ViewIdle == http = <<>>

RandIdle == rnd = <<>> /\ randRet = NotCalled

FpIdle == fpIn = <<>> /\ fpRet = [op |-> "none", name |-> <<>>, value |-> <<>>]

DbIdle ==
    /\ routers = <<>>
    /\ subscribers = <<>>
    /\ subscriptions = <<>>
    /\ nextId = [Router |-> 1, Subscriber |-> 1, Subscription |-> 1]
    /\ dbRet = DbDone("none", 0, {}, "none", <<0, 0>>)

Init == CtlInit /\ ViewIdle /\ RandIdle /\ FpIdle /\ DbIdle

Next == CtlNext

Spec == Init /\ [][Next]_vars

InitView == ViewInit /\ CtlIdle /\ RandIdle /\ FpIdle /\ DbIdle

NextView == ViewNext

SpecView == InitView /\ [][NextView]_vars

InitRand == RandInit /\ CtlIdle /\ ViewIdle /\ FpIdle /\ DbIdle

NextRand == RandNext

SpecRand == InitRand /\ [][NextRand]_vars

InitFp == FpInit /\ CtlIdle /\ ViewIdle /\ RandIdle /\ DbIdle

NextFp == FpNext

SpecFp == InitFp /\ [][NextFp]_vars

InitDb == DbInit /\ CtlIdle /\ ViewIdle /\ RandIdle /\ FpIdle

NextDb == DbNext

SpecDb == InitDb /\ [][NextDb]_vars

----------------------------------------------------------------------------
(* Properties *)

Checks == {"is_up", "is_exit", "is_stable", "is_hibernating"}

Queries == {"get_server_descriptor", "get_network_status"}

KnownFingerprints == DOMAIN Consensus \cup DOMAIN Descriptors

\* how many logged messages are among msgs
NumLogged(msgs) == Cardinality({i \in 1 .. Len(log) : log[i] \in msgs})

\* C1 (as claimed): whichever of the four checks is called with a fingerprint
\* the control library does not know, it returns False and raises nothing.
C1_UnknownFingerprintGivesFalse ==
    (last.op \in Checks /\ last.fp \notin KnownFingerprints)
        => (last.kind = "return" /\ last.value = FALSE)

\* C2 (as claimed): the number of error messages the checks logged equals the
\* number of checks that returned False because of a control-connection error.
C2_EveryConvertedErrorIsLogged ==
    NumLogged({MsgDescriptor, MsgStatus})
        = errFalse["is_up"] + errFalse["is_exit"] + errFalse["is_stable"]
            + errFalse["is_hibernating"]

\* C2 (amended): is_exit and is_stable log one message for each control error
\* they convert to False, and is_hibernating converts its control errors to
\* False without logging: the checks' log holds exactly one descriptor
\* message per failed is_exit and one status message per failed is_stable.
C2_ExitAndStableLogTheirErrors ==
    /\ NumLogged({MsgDescriptor}) = errFalse["is_exit"]
    /\ NumLogged({MsgStatus}) = errFalse["is_stable"]
    /\ errFalse["is_up"] = 0
    /\ (last.op \in {"is_exit", "is_stable", "is_hibernating"}
          /\ last.lookup = "ControllerError")
         => (last.kind = "return" /\ last.value = FALSE)

\* C2 witness: is_hibernating and is_stable have each converted a control
\* error to False.
C2_Witness ==
    /\ errFalse["is_hibernating"] > 0
    /\ errFalse["is_stable"] > 0
    /\ last.lookup = "ControllerError"

\* C3 (as claimed): is_up returns a boolean, True exactly when the consensus
\* holds a document for the fingerprint.
C3_IsUpReturnsWhetherInConsensus ==
    last.op = "is_up"
        => (last.kind = "return" /\ last.value = (last.fp \in DOMAIN Consensus))

\* C4: a query reaches the control port only after a successful connect and
\* then a successful authenticate on the same object; a failed connect is
\* logged and leaves no usable object; no object connects twice.
C4_ChecksOnlyAfterConnectThenAuthenticate ==
    /\ \A o \in Objects :
         LET c == obj[o].calls IN
           /\ \A i \in 1 .. Len(c) :
                c[i] \in Queries =>
                    /\ i > 2
                    /\ c[1] = "from_port" /\ c[2] = "authenticate"
                    /\ obj[o].initExc = "none"
           /\ Cardinality({i \in 1 .. Len(c) : c[i] = "from_port"}) <= 1
           /\ obj[o].phase = "ready" =>
                (obj[o].conn = "authenticated" /\ obj[o].initExc = "none")
           /\ obj[o].initExc = "SocketError" =>
                (obj[o].phase \in {"garbage", "finalized"} /\ c = <<"from_port">>)
    /\ NumLogged({MsgConnect})
         = Cardinality({o \in Objects : obj[o].initExc = "SocketError"})

\* C4 witness: one constructor failed to connect, and a check has queried the
\* control port through another object.
C4_Witness ==
    \E o1 \in Objects, o2 \in Objects :
        /\ obj[o1].initExc = "SocketError"
        /\ \E i \in 1 .. Len(obj[o2].calls) : obj[o2].calls[i] \in Queries

\* C5 (as claimed): __del__ completes without error for every object whose
\* __init__ was entered, and leaves the object's connection closed.
C5_DelCompletesAndCloses ==
    \A o \in DOMAIN obj :
        obj[o].phase = "finalized" =>
            (obj[o].delExc = "none" /\ obj[o].conn \in {"none", "closed"})

\* C6 (as claimed): subscribe shows the form when nothing was submitted,
\* redirects to the pending page after an acceptable submission, and sends an
\* already subscribed user to an error page.
C6_SubscribeHandlesSubmission ==
    \A i \in 1 .. Len(http) :
        LET h == http[i] IN
          h.view = "subscribe" =>
            /\ h.request.method = "GET" =>
                 h.response = render(h.request, "subscribe.html")
            /\ (h.request.method = "POST" /\ h.request.subscribed) =>
                 (h.response.kind = "redirect" /\ h.response.to = "error")
            /\ (h.request.method = "POST" /\ h.request.fieldsOk
                  /\ ~h.request.subscribed) =>
                 (h.response.kind = "redirect" /\ h.response.to = "pending")

UrlSafeChars == ({B64Std[i] : i \in 1 .. 64} \ {"+", "/"}) \cup {"-", "_"}

\* C7 (as claimed): get_rand_string returns 24 url-safe characters, the last
\* of them not '-'.
C7_RandStringIs24UrlSafeChars ==
    randRet.kind # "none" =>
        /\ randRet.kind = "return"
        /\ Len(randRet.value.chars) = 24
        /\ \A i \in 1 .. 24 : randRet.value.chars[i] \in UrlSafeChars
        /\ randRet.value.chars[24] # "-"

DeleteSpaces(s) == SelectSeq(s, LAMBDA c : c # " ")

\* the space-separated groups of s
RECURSIVE SplitSpaces(_)
SplitSpaces(s) ==
    IF \A i \in 1 .. Len(s) : s[i] # " " THEN <<s>>
    ELSE LET k == CHOOSE i \in 1 .. Len(s) :
                     s[i] = " " /\ \A j \in 1 .. i - 1 : s[j] # " "
         IN <<SubSeq(s, 1, k - 1)>> \o SplitSpaces(SubSeq(s, k + 1, Len(s)))

IsFingerprintText(s) == \A i \in 1 .. Len(s) : s[i] \notin {" ", "\n"}

====
